---- MODULE Spec2Model ----
(***************************************************************************)
(* A model of the GDP pipeline: load_csv (wide-to-long), clean_data,       *)
(* the aggregation primitives and process_data.                            *)
(*                                                                         *)
(* Texts (Python str) are sequences of one-character strings, so that      *)
(* strip(), isdigit() and float() are computed character by character.     *)
(* Floats are extended rationals <<n, d>>: d > 0 is the finite value n/d   *)
(* in lowest terms, <<0, 0>> is NaN, <<1, 0>> is +inf and <<-1, 0>> -inf.  *)
(* A function that can raise yields [exc, val]: the exception that leaves  *)
(* it ("none" when it returns) and the value it returns.                   *)
(*                                                                         *)
(* Each stage is checked from its own inputs:                              *)
(*   SpecLoad     load_csv on the files of CsvFiles                        *)
(*   SpecClean    clean_data on sequences of FlatRows                      *)
(*   SpecGroup    _group_by_key on datasets, by Region and by Year         *)
(*   SpecProcess  process_data on Datasets and Configs                     *)
(*   SpecReduce   compute_average and compute_sum on lists of floats       *)
(*   SpecPermuted process_data on a dataset and on a reordering of it      *)
(*   SpecTwice    process_data called twice on one dataset and config      *)
(*   SpecMain     main: the four stages over config and data files         *)
(***************************************************************************)
EXTENDS Integers, Sequences, FiniteSets, TLC

VARIABLES pc, csv_file, transformed, data, config, results, error, group_key, groups,
          other_data, other_results, numbers, stat, config_file, calls

vars == <<pc, csv_file, transformed, data, config, results, error, group_key, groups,
          other_data, other_results, numbers, stat, config_file, calls>>

(* the variables of the other calls: the second call of process_data, the
   reducers called on their own, and main *)
others == <<other_data, other_results, numbers, stat, config_file, calls>>

(* Python's None: a value no text (a sequence of one-character strings) and
   no float (a pair of integers) equals. *)
None == <<"None">>

\* ------------------------------------------------------------------ texts

Whitespace == {" "}
Digits == {"0", "1", "2", "3", "4", "5", "6", "7", "8", "9"}

RECURSIVE lstrip(_)
lstrip(s) ==
    IF s # <<>> /\ Head(s) \in Whitespace THEN lstrip(Tail(s)) ELSE s

RECURSIVE rstrip(_)
rstrip(s) ==
    IF s # <<>> /\ s[Len(s)] \in Whitespace
    THEN rstrip(SubSeq(s, 1, Len(s) - 1))
    ELSE s

(* str.strip() *)
strip(s) == rstrip(lstrip(s))

(* str.isdigit(): non-empty and every character a digit *)
isdigit(s) == s # <<>> /\ \A i \in 1..Len(s) : s[i] \in Digits

RECURSIVE Reverse(_)
Reverse(s) == IF s = <<>> THEN <<>> ELSE Append(Reverse(Tail(s)), Head(s))

RECURSIVE Flatten(_)
Flatten(ss) == IF ss = <<>> THEN <<>> ELSE Head(ss) \o Flatten(Tail(ss))


\* ----------------------------------------------------------------- floats

NaN == <<0, 0>>
Inf == <<1, 0>>
NegInf == <<-1, 0>>

Abs(n) == IF n < 0 THEN -n ELSE n

RECURSIVE GCD(_, _)
GCD(a, b) == IF b = 0 THEN a ELSE GCD(b, a % b)

(* the finite float n/d, d > 0, in lowest terms *)
Norm(n, d) == LET g == GCD(Abs(n), d) IN <<n \div g, d \div g>>

Fin(n) == <<n, 1>>

IsNaN(x) == x = NaN
IsFinite(x) == x[2] > 0

(* float addition: NaN is absorbing, inf + -inf is NaN *)
FAdd(x, y) ==
    IF IsNaN(x) \/ IsNaN(y) THEN NaN
    ELSE IF ~IsFinite(x) /\ ~IsFinite(y) THEN (IF x = y THEN x ELSE NaN)
    ELSE IF ~IsFinite(x) THEN x
    ELSE IF ~IsFinite(y) THEN y
    ELSE Norm(x[1] * y[2] + y[1] * x[2], x[2] * y[2])

(* what float / 0 raises, as the outcome of the division *)
ZeroDivisionError == <<"ZeroDivisionError">>

(* float / len(values): a zero count raises *)
FDiv(x, k) ==
    IF k = 0 THEN ZeroDivisionError
    ELSE IF IsFinite(x) THEN Norm(x[1], x[2] * k) ELSE x

(* x < y on floats: every comparison with NaN is False *)
FLt(x, y) ==
    IF IsNaN(x) \/ IsNaN(y) THEN FALSE
    ELSE IF IsFinite(x) /\ IsFinite(y) THEN x[1] * y[2] < y[1] * x[2]
    ELSE IF x = y THEN FALSE
    ELSE x = NegInf \/ y = Inf

(* int(x) of a finite float: truncation toward zero *)
Trunc(x) == IF x[1] >= 0 THEN x[1] \div x[2] ELSE -((-x[1]) \div x[2])

DigitValue ==
    ("0" :> 0) @@ ("1" :> 1) @@ ("2" :> 2) @@ ("3" :> 3) @@ ("4" :> 4) @@
    ("5" :> 5) @@ ("6" :> 6) @@ ("7" :> 7) @@ ("8" :> 8) @@ ("9" :> 9)

RECURSIVE DigitsToInt(_)
DigitsToInt(s) ==
    IF s = <<>> THEN 0
    ELSE 10 * DigitsToInt(SubSeq(s, 1, Len(s) - 1)) + DigitValue[s[Len(s)]]

RECURSIVE Pow10(_)
Pow10(k) == IF k = 0 THEN 1 ELSE 10 * Pow10(k - 1)

AllDigits(s) == \A i \in 1..Len(s) : s[i] \in Digits

(* the unsigned part of a float literal: inf, nan, or digits [. digits]
   with at least one digit; None when the text is no literal. The texts
   of the model hold no exponent, underscore or letter case variant. *)
ParseUnsigned(s) ==
    IF s = <<"i", "n", "f">> THEN Inf
    ELSE IF s = <<"n", "a", "n">> THEN NaN
    ELSE LET dots == {i \in 1..Len(s) : s[i] = "."}
             ip == IF dots = {} THEN s
                   ELSE SubSeq(s, 1, (CHOOSE i \in dots : TRUE) - 1)
             fp == IF dots = {} THEN <<>>
                   ELSE SubSeq(s, (CHOOSE i \in dots : TRUE) + 1, Len(s))
         IN  IF Cardinality(dots) <= 1 /\ AllDigits(ip) /\ AllDigits(fp)
                /\ Len(ip) + Len(fp) > 0
             THEN Norm(DigitsToInt(ip \o fp), Pow10(Len(fp)))
             ELSE None

FNeg(x) == IF IsNaN(x) THEN NaN ELSE <<-x[1], x[2]>>

(* float(v): [exc, val]. TypeError for None, ValueError for a text that is
   no float literal; surrounding whitespace and one sign are accepted. *)
float(v) ==
    IF v = None THEN [exc |-> "TypeError", val |-> None]
    ELSE LET t == strip(v)
             signed == t # <<>> /\ Head(t) \in {"+", "-"}
             u == ParseUnsigned(IF signed THEN Tail(t) ELSE t)
         IN  IF u = None THEN [exc |-> "ValueError", val |-> None]
             ELSE [exc |-> "none",
                   val |-> IF signed /\ Head(t) = "-" THEN FNeg(u) ELSE u]

(* int(x) of a float: ValueError for NaN, OverflowError for an infinity *)
int(x) ==
    IF IsNaN(x) THEN [exc |-> "ValueError", val |-> None]
    ELSE IF ~IsFinite(x) THEN [exc |-> "OverflowError", val |-> None]
    ELSE [exc |-> "none", val |-> Trunc(x)]

\* ------------------------------------------------------------------ dicts
(* A Python dict is the sequence of its <<key, value>> items in insertion
   order, keys distinct. *)

DictKeys(d) == [i \in 1..Len(d) |-> d[i][1]]
DictValues(d) == [i \in 1..Len(d) |-> d[i][2]]
DictHas(d, k) == \E i \in 1..Len(d) : d[i][1] = k

(* d.get(k, default) *)
DictGet(d, k, default) ==
    IF DictHas(d, k) THEN d[CHOOSE i \in 1..Len(d) : d[i][1] = k][2]
    ELSE default

(* a faulty variant of DictSet: a key already present keeps its first value *)
DictSet_KeepFirst(d, k, v) ==
    IF DictHas(d, k) THEN d ELSE Append(d, <<k, v>>)

(* d[k] = v: a new key goes last, a present key keeps its place *)
DictSet(d, k, v) ==
    IF DictHas(d, k)
    THEN [i \in 1..Len(d) |-> IF d[i][1] = k THEN <<k, v>> ELSE d[i]]
    ELSE Append(d, <<k, v>>)

(* dict(items) and {k: v for ...}: later items overwrite earlier ones *)
RECURSIVE DictFrom(_, _)
DictFrom(d, items) ==
    IF items = <<>> THEN d
    ELSE DictFrom(DictSet(d, Head(items)[1], Head(items)[2]), Tail(items))

dict(items) == DictFrom(<<>>, items)

\* ------------------------------------------------------------ load_config

(* a path at which os.path.exists is False *)
NoConfigFile == [exists |-> FALSE, parses |-> FALSE, content |-> <<>>]

required_keys == <<"region", "year", "operation", "output">>
valid_operations == {"average", "sum"}
valid_outputs == {"dashboard", "console"}

(* load_config over a file [exists, parses, content]: parses tells whether
   json.load accepts the text, content is the object it returns *)
load_config(file) ==
    IF ~file.exists THEN [exc |-> "FileNotFoundError", val |-> <<>>]
    ELSE IF ~file.parses THEN [exc |-> "JSONDecodeError", val |-> <<>>]
    ELSE LET cfg == file.content
             missing_keys ==
                 SelectSeq(required_keys, LAMBDA k : k \notin DOMAIN cfg)
         IN  IF missing_keys # <<>> THEN [exc |-> "ValueError", val |-> <<>>]
             ELSE IF cfg["operation"] \notin valid_operations
                  THEN [exc |-> "ValueError", val |-> <<>>]
             ELSE IF cfg["output"] \notin valid_outputs
                  THEN [exc |-> "ValueError", val |-> <<>>]
             ELSE [exc |-> "none", val |-> cfg]

\* --------------------------------------------------------------- load_csv

COUNTRY_NAME == <<"C", "o", "u", "n", "t", "r", "y", " ", "N", "a", "m", "e">>
COUNTRY_CODE == <<"C", "o", "u", "n", "t", "r", "y", " ", "C", "o", "d", "e">>
CONTINENT == <<"C", "o", "n", "t", "i", "n", "e", "n", "t">>
REGION == <<"R", "e", "g", "i", "o", "n">>
YEAR == <<"Y", "e", "a", "r">>
VALUE == <<"V", "a", "l", "u", "e">>

(* a path at which os.path.exists is False *)
NoFile == [exists |-> FALSE, fieldnames |-> <<>>, lines |-> <<>>]

(* csv.DictReader over a file [exists, fieldnames, lines]: one dict per non-blank
   line; a line shorter than the header maps the remaining fieldnames to
   None (restval), a longer one maps the key None (restkey) to the list of
   the extra cells. *)
DictReaderRow(fieldnames, line) ==
    LET n == Len(fieldnames)
        m == Len(line)
        named == [i \in 1..n |->
                    <<fieldnames[i], IF i <= m THEN line[i] ELSE None>>]
    IN  IF m > n
        THEN DictSet(dict(named), None, SubSeq(line, n + 1, m))
        ELSE dict(named)

RECURSIVE DictReader(_, _)
DictReader(fieldnames, lines) ==
    IF lines = <<>> THEN <<>>
    ELSE IF Head(lines) = <<>> THEN DictReader(fieldnames, Tail(lines))
    ELSE <<DictReaderRow(fieldnames, Head(lines))>>
             \o DictReader(fieldnames, Tail(lines))

(* the body of load_csv's loop for one row: the records the row yields, or
   the AttributeError of calling a str method on None *)
RowRecords(row) ==
    LET name == DictGet(row, COUNTRY_NAME, <<>>)
        code == DictGet(row, COUNTRY_CODE, <<>>)
        cont == DictGet(row, CONTINENT, <<>>)
        keys == DictKeys(row)
    IN  IF None \in {name, code, cont}
        THEN [exc |-> "AttributeError", val |-> <<>>]
        ELSE IF \E i \in 1..Len(keys) : keys[i] = None
        THEN [exc |-> "AttributeError", val |-> <<>>]
        ELSE LET years == SelectSeq(keys, isdigit)
             IN  IF \E i \in 1..Len(years) : DictGet(row, years[i], <<>>) = None
                 THEN [exc |-> "AttributeError", val |-> <<>>]
                 ELSE LET kept == SelectSeq(years,
                                    LAMBDA y : strip(DictGet(row, y, <<>>)) # <<>>)
                      IN  [exc |-> "none",
                           val |-> [i \in 1..Len(kept) |->
                              << <<COUNTRY_NAME, strip(name)>>,
                                 <<COUNTRY_CODE, strip(code)>>,
                                 <<REGION, strip(cont)>>,
                                 <<YEAR, kept[i]>>,
                                 <<VALUE, strip(DictGet(row, kept[i], <<>>))>> >>]]

(* load_csv: [exc, val] *)
load_csv(file) ==
    IF ~file.exists THEN [exc |-> "FileNotFoundError", val |-> <<>>]
    ELSE LET raw_rows == DictReader(file.fieldnames, file.lines)
             per_row == [i \in 1..Len(raw_rows) |-> RowRecords(raw_rows[i])]
         IN  IF raw_rows = <<>> THEN [exc |-> "ValueError", val |-> <<>>]
             ELSE IF \E i \in 1..Len(per_row) : per_row[i].exc # "none"
             THEN [exc |-> "AttributeError", val |-> <<>>]
             ELSE [exc |-> "none",
                   val |-> Flatten([i \in 1..Len(per_row) |-> per_row[i].val])]


\* ------------------------------------------------------------- clean_data

(* _parse_year: int(float(value)), None on ValueError or TypeError; an
   OverflowError is not caught. The result is [exc, isNone, val]: the
   exception that leaves the function, whether it returns None, and the
   integer it returns otherwise. *)
_parse_year(value) ==
    LET f == float(value)
        n == IF f.exc = "none" THEN int(f.val) ELSE f
    IN  IF f.exc \in {"ValueError", "TypeError"}
        THEN [exc |-> "none", isNone |-> TRUE, val |-> 0]
        ELSE IF n.exc \in {"ValueError", "TypeError"}
        THEN [exc |-> "none", isNone |-> TRUE, val |-> 0]
        ELSE IF n.exc # "none"
        THEN [exc |-> n.exc, isNone |-> TRUE, val |-> 0]
        ELSE [exc |-> "none", isNone |-> FALSE, val |-> n.val]

(* _parse_gdp: float(value), None on ValueError or TypeError *)
_parse_gdp(value) ==
    LET f == float(value)
    IN  IF f.exc \in {"ValueError", "TypeError"} THEN None ELSE f.val

(* {k.strip(): v.strip() if isinstance(v, str) else v for k, v in row.items()} *)
StripRow(row) ==
    dict([i \in 1..Len(row) |->
            <<strip(row[i][1]),
              IF row[i][2] = None THEN None ELSE strip(row[i][2])>>])

(* bool(v) of a text or None *)
Truthy(v) == v # None /\ v # <<>>

(* a record of the cleaned dataset *)
GdpRecord(name, code, region, year, value) ==
    ("Country Name" :> name) @@ ("Country Code" :> code) @@
    ("Region" :> region) @@ ("Year" :> year) @@ ("Value" :> value)

(* clean_data: [exc, val] *)
clean_data(raw_rows) ==
    LET stripped_rows == [i \in 1..Len(raw_rows) |-> StripRow(raw_rows[i])]
        parsed_rows == [i \in 1..Len(stripped_rows) |->
            [name |-> DictGet(stripped_rows[i], COUNTRY_NAME, <<>>),
             code |-> DictGet(stripped_rows[i], COUNTRY_CODE, <<>>),
             region |-> DictGet(stripped_rows[i], REGION, <<>>),
             year |-> _parse_year(DictGet(stripped_rows[i], YEAR, <<>>)),
             value |-> _parse_gdp(DictGet(stripped_rows[i], VALUE, <<>>))]]
        keep(row) == /\ Truthy(row.name)
                     /\ Truthy(row.code)
                     /\ Truthy(row.region)
                     /\ ~row.year.isNone
                     /\ row.value # None
        cleaned == SelectSeq(parsed_rows, keep)
        raising == {i \in 1..Len(parsed_rows) : parsed_rows[i].year.exc # "none"}
    IN  IF raising # {}
        THEN [exc |-> parsed_rows[CHOOSE i \in raising :
                                    \A j \in raising : i <= j].year.exc,
              val |-> <<>>]
        ELSE [exc |-> "none",
              val |-> [i \in 1..Len(cleaned) |->
                         GdpRecord(cleaned[i].name, cleaned[i].code,
                                   cleaned[i].region, cleaned[i].year.val,
                                   cleaned[i].value)]]

\* --------------------------------------------------------- data_processor

filter_by_region(rows, region) ==
    SelectSeq(rows, LAMBDA row : row["Region"] = region)

(* the config's year is an integer (spec 3), so int(year) is year itself *)
filter_by_year(rows, year) ==
    SelectSeq(rows, LAMBDA row : row["Year"] = year)

Values(rows) == [i \in 1..Len(rows) |-> rows[i]["Value"]]

(* sum(values): 0 + values[0] + values[1] + ..., left to right *)
RECURSIVE SumFrom(_, _)
SumFrom(acc, values) ==
    IF values = <<>> THEN acc
    ELSE SumFrom(FAdd(acc, Head(values)), Tail(values))

compute_sum(values) == SumFrom(Fin(0), values)

(* a faulty variant of compute_average: the division is not guarded *)
compute_average_Unguarded(values) == FDiv(compute_sum(values), Len(values))

compute_average(values) ==
    IF values # <<>> THEN FDiv(compute_sum(values), Len(values)) ELSE Fin(0)

(* op_func = compute_average if operation == "average" else compute_sum *)
op_func(operation, values) ==
    IF operation = "average" THEN compute_average(values)
    ELSE compute_sum(values)

(* a faulty variant of _group_by_key: a group holds the Value of the first row of
   its key only *)
_group_by_key_FirstRow(rows, key) ==
    LET unique_keys == {rows[i][key] : i \in 1..Len(rows)}
    IN  [k \in unique_keys |->
           SubSeq(Values(SelectSeq(rows, LAMBDA row : row[key] = k)), 1, 1)]

(* _group_by_key: the mapping from each distinct value of the key to the
   Values of its rows, in dataset order. The keys come out of a set: the
   mapping is a function, its iteration order is not modelled. *)
_group_by_key(rows, key) ==
    LET unique_keys == {rows[i][key] : i \in 1..Len(rows)}
    IN  [k \in unique_keys |->
           Values(SelectSeq(rows, LAMBDA row : row[key] = k))]

ReduceGroups(grouped, operation) ==
    [k \in DOMAIN grouped |-> op_func(operation, grouped[k])]

(* a faulty variant of region_wise_stats: the operation is not looked at *)
region_wise_stats_AlwaysSum(rows, operation) ==
    ReduceGroups(_group_by_key(rows, "Region"), "sum")

region_wise_stats(rows, operation) ==
    ReduceGroups(_group_by_key(rows, "Region"), operation)

year_wise_gdp(rows, operation) ==
    ReduceGroups(_group_by_key(rows, "Year"), operation)

(* list.sort for fewer than 64 items (CPython listobject.c): one natural
   run, found by count_run and reversed when strictly descending, then
   extended to the whole list by binary insertion. a holds <<key, value>>
   items; only value < value is ever asked. *)
RECURSIVE RunEnd(_, _, _)
RunEnd(a, i, descending) ==
    IF i > Len(a) THEN i
    ELSE IF FLt(a[i][2], a[i - 1][2]) = descending
    THEN RunEnd(a, i + 1, descending)
    ELSE i

count_run(a) ==
    IF Len(a) = 1 THEN [n |-> 1, descending |-> FALSE]
    ELSE LET descending == FLt(a[2][2], a[1][2])
         IN  [n |-> RunEnd(a, 3, descending) - 1, descending |-> descending]

RECURSIVE BinarySearch(_, _, _, _)
BinarySearch(a, pivot, l, r) ==
    LET p == l + ((r - l) \div 2)
        lt == FLt(pivot[2], a[p][2])
        l2 == IF lt THEN l ELSE p + 1
        r2 == IF lt THEN p ELSE r
    IN  IF l2 < r2 THEN BinarySearch(a, pivot, l2, r2) ELSE l2

RECURSIVE binarysort(_, _)
binarysort(a, start) ==
    IF start > Len(a) THEN a
    ELSE LET l == BinarySearch(a, a[start], 1, start)
         IN  binarysort(SubSeq(a, 1, l - 1) \o <<a[start]>>
                           \o SubSeq(a, l, start - 1)
                           \o SubSeq(a, start + 1, Len(a)),
                        start + 1)

(* sorted(items, key=lambda item: item[1], reverse=True): the list is
   reversed, sorted ascending, and reversed again *)
SortedByValueReversed(items) ==
    IF Len(items) < 2 THEN items
    ELSE LET a == Reverse(items)
             run == count_run(a)
             b == IF run.descending
                  THEN Reverse(SubSeq(a, 1, run.n)) \o SubSeq(a, run.n + 1, Len(a))
                  ELSE a
         IN  Reverse(binarysort(b, run.n + 1))

TopK == 5

(* items[:5] *)
FirstK(items) == SubSeq(items, 1, IF Len(items) < TopK THEN Len(items) ELSE TopK)

(* sorted(set(...)) of integers *)
RECURSIVE SortedSet(_)
SortedSet(S) ==
    IF S = {} THEN <<>>
    ELSE LET m == CHOOSE x \in S : \A y \in S : x <= y
         IN  <<m>> \o SortedSet(S \ {m})

RequiredKeys == {"region", "year", "operation", "output"}

(* {row["Country Name"]: row["Value"] for row in region_year_data} *)
RegionYearCountries(rows, region, year) ==
    LET region_year_data ==
            SelectSeq(rows, LAMBDA row : row["Region"] = region
                                          /\ row["Year"] = year)
    IN  dict([i \in 1..Len(region_year_data) |->
                <<region_year_data[i]["Country Name"],
                  region_year_data[i]["Value"]>>])

TopCountries(region_year_countries) ==
    dict(FirstK(SortedByValueReversed(region_year_countries)))

(* the years of the rows in the order in which the rows first show them *)
RECURSIVE FirstSeen(_, _)
FirstSeen(rows, seen) ==
    IF rows = <<>> THEN <<>>
    ELSE IF Head(rows)["Year"] \in seen THEN FirstSeen(Tail(rows), seen)
    ELSE <<Head(rows)["Year"]>>
            \o FirstSeen(Tail(rows), seen \cup {Head(rows)["Year"]})

(* a faulty variant of RegionTrend: the years are not sorted *)
RegionTrend_Unsorted(rows, region, operation) ==
    LET years == FirstSeen(rows, {})
        present == SelectSeq(years, LAMBDA yr :
            filter_by_year(filter_by_region(rows, region), yr) # <<>>)
    IN  [i \in 1..Len(present) |->
           <<present[i],
             op_func(operation,
                Values(filter_by_year(filter_by_region(rows, region),
                                      present[i])))>>]

(* the loop that builds region_trend: the years of the dataset in ascending
   order, those in which the region has a row *)
RegionTrend(rows, region, operation) ==
    LET years == SortedSet({rows[i]["Year"] : i \in 1..Len(rows)})
        present == SelectSeq(years, LAMBDA yr :
            filter_by_year(filter_by_region(rows, region), yr) # <<>>)
    IN  [i \in 1..Len(present) |->
           <<present[i],
             op_func(operation,
                Values(filter_by_year(filter_by_region(rows, region),
                                      present[i])))>>]

(* a faulty variant of RegionStat: the rows of the region in the configured year *)
RegionStat_YearScoped(rows, cfg) ==
    op_func(cfg["operation"],
            Values(filter_by_year(filter_by_region(rows, cfg["region"]),
                                  cfg["year"])))

(* region_stat: the operation over the Values of the region's rows *)
RegionStat(rows, cfg) ==
    op_func(cfg["operation"], Values(filter_by_region(rows, cfg["region"])))

(* process_data: [exc, val]; a key the config lacks is a KeyError *)
process_data(rows, cfg) ==
    IF ~(RequiredKeys \subseteq DOMAIN cfg)
    THEN [exc |-> "KeyError", val |-> <<>>]
    ELSE LET operation == cfg["operation"]
             region == cfg["region"]
             year == cfg["year"]
             filtered_by_region == filter_by_region(rows, region)
             filtered_by_year == filter_by_year(rows, year)
             region_year_countries == RegionYearCountries(rows, region, year)
         IN  [exc |-> "none",
              val |->
                [config_summary |-> [region |-> region, year |-> year,
                                     operation |-> operation,
                                     output |-> cfg["output"]],
                 filtered_region_count |-> Len(filtered_by_region),
                 filtered_year_count |-> Len(filtered_by_year),
                 region_stat |-> RegionStat(rows, cfg),
                 region_stats_by_year |-> region_wise_stats(rows, operation),
                 year_stats_global |-> year_wise_gdp(rows, operation),
                 region_year_countries |-> region_year_countries,
                 top_countries_in_region |-> TopCountries(region_year_countries),
                 region_trend |-> RegionTrend(rows, region, operation)]]

\* ------------------------------------------------- inputs of load_csv

MaxLines == 2

Y1990 == <<"1", "9", "9", "0">>
Y1991 == <<"1", "9", "9", "1">>
NOTE == <<"N", "o", "t", "e">>

(* the header of the source table: the fixed columns, a column that is no
   year, and two digit-named year columns *)
Fieldnames == <<COUNTRY_NAME, COUNTRY_CODE, CONTINENT, NOTE, Y1990, Y1991>>

FixedCells ==
    { << <<"A">>, <<"A", "A">>, <<"X">>, <<"n">> >>,
      << <<" ", "B">>, <<"B", "B", " ">>, <<>>, <<"7">> >> }

YearCells == { <<>>, <<" ">>, <<"5">>, <<" ", "6", " ">> }

(* the lines of the file: complete lines, lines cut short after the first
   year cell or before it, a line with one cell too many, a blank line *)
CsvLines ==
    { f \o <<a, b>> : f \in FixedCells, a \in YearCells, b \in YearCells }
    \cup { f \o <<a>> : f \in FixedCells, a \in YearCells }
    \cup FixedCells
    \cup { f \o <<a, a, a>> : f \in FixedCells, a \in {<<"5">>} }
    \cup { <<>> }

CsvFiles ==
    { [exists |-> TRUE, fieldnames |-> Fieldnames, lines |-> l] :
        l \in UNION { [1..n -> CsvLines] : n \in 0..MaxLines } }

\* ------------------------------------------------------------- the stages

(* the config before load_config has run *)
NoConfig == <<>>

InitLoad ==
    /\ pc = "load_csv"
    /\ csv_file \in CsvFiles \cup {NoFile}
    /\ transformed = <<>>
    /\ data = <<>>
    /\ config = NoConfig
    /\ results = <<>>
    /\ error = "none"
    /\ group_key = "none"
    /\ groups = <<>>
    /\ other_data = <<>>
    /\ other_results = <<>>
    /\ numbers = <<>>
    /\ stat = None
    /\ config_file = NoConfigFile
    /\ calls = <<>>

(* load_csv(file_path), data_loader.py 27-65 *)
LoadCsv ==
    /\ pc = "load_csv"
    /\ LET r == load_csv(csv_file)
       IN  /\ error' = r.exc
           /\ transformed' = r.val
           /\ pc' = IF r.exc = "none" THEN "loaded" ELSE "raised"
    /\ UNCHANGED <<csv_file, data, config, results, group_key, groups,
                   others>>

NextLoad == LoadCsv

SpecLoad == InitLoad /\ [][NextLoad]_vars


\* ------------------------------------------------- inputs of clean_data

MaxFlat == 2

FlatNames ==
    { << <<"A">>, <<"A", "A">>, <<"X">> >>,
      << <<" ", "A">>, <<"A", "A", " ">>, <<" ", "X", " ">> >>,
      << <<" ">>, <<"A", "A">>, <<"X">> >>,
      << <<"A">>, <<>>, <<"X">> >>,
      << <<"A">>, <<"A", "A">>, <<>> >> }

YearTexts ==
    { Y1990, <<"1", "9", "9", "0", ".", "5">>, <<" ", "1", "9", "9", "1", " ">>,
      <<"-", "1", ".", "5">>, <<>>, <<"x">>, <<"n", "a", "n">>,
      <<"i", "n", "f">>, None }

ValueTexts ==
    { <<"1", "2", ".", "5">>, <<" ", "7">>, <<>>, <<"x">>,
      <<"n", "a", "n">>, None }

FlatRow(f, y, v) ==
    << <<COUNTRY_NAME, f[1]>>, <<COUNTRY_CODE, f[2]>>, <<REGION, f[3]>>,
       <<YEAR, y>>, <<VALUE, v>> >>

(* flat records with the five keys load_csv writes: every Year and Value
   text under well-formed names, every choice of names under a good and a
   bad Year and Value; one record without a Value key and one whose Year
   key carries whitespace *)
FlatRows ==
    { FlatRow(<< <<"A">>, <<"A", "A">>, <<"X">> >>, y, v) :
        y \in YearTexts, v \in ValueTexts }
    \cup
    { FlatRow(f, y, v) : f \in FlatNames, y \in {Y1990, <<"x">>},
                         v \in {<<"1", "2", ".", "5">>, <<>>} }
    \cup
    { << <<COUNTRY_NAME, <<"A">> >>, <<COUNTRY_CODE, <<"A", "A">> >>,
         <<REGION, <<"X">> >>, <<YEAR, Y1990>> >>,
      << <<COUNTRY_NAME, <<"A">> >>, <<COUNTRY_CODE, <<"A", "A">> >>,
         <<REGION, <<"X">> >>, <<<<" ">> \o YEAR, Y1991>>,
         <<VALUE, <<"5">> >> >> }

InitClean ==
    /\ pc = "clean_data"
    /\ csv_file = NoFile
    /\ transformed \in UNION { [1..n -> FlatRows] : n \in 0..MaxFlat }
    /\ data = <<>>
    /\ config = NoConfig
    /\ results = <<>>
    /\ error = "none"
    /\ group_key = "none"
    /\ groups = <<>>
    /\ other_data = <<>>
    /\ other_results = <<>>
    /\ numbers = <<>>
    /\ stat = None
    /\ config_file = NoConfigFile
    /\ calls = <<>>

(* clean_data(raw), data_loader.py 80-106 *)
CleanData ==
    /\ pc = "clean_data"
    /\ LET r == clean_data(transformed)
       IN  /\ error' = r.exc
           /\ data' = r.val
           /\ pc' = IF r.exc = "none" THEN "cleaned" ELSE "raised"
    /\ UNCHANGED <<csv_file, transformed, config, results, group_key, groups,
                   others>>

NextClean == CleanData

SpecClean == InitClean /\ [][NextClean]_vars


\* ----------------------------------------------- inputs of process_data

MaxRecords == 2
MaxRanked == 7
MaxGrouped == 3

Letters == <<"A", "B", "C", "D", "E", "F", "G", "H", "I">>
Country(i) == <<Letters[i]>>
Code(i) == <<Letters[i], Letters[i]>>

RegionX == <<"X">>
RegionY == <<"Y">>

GdpValues == {Fin(1), Fin(2), NaN}

(* records of two countries, two regions and two years *)
GdpRecords ==
    { GdpRecord(Country(i), Code(i), r, y, v) :
        i \in 1..2, r \in {RegionX, RegionY}, y \in {2000, 2001},
        v \in GdpValues }

(* datasets of any records, and the datasets of one region and year in
   which every record is of another country: the inputs of the ranking *)
Datasets ==
    UNION { [1..n -> GdpRecords] : n \in 0..MaxRecords }
    \cup
    UNION { { [i \in 1..n |-> GdpRecord(Country(i), Code(i), RegionX, 2000, v[i])] :
                v \in [1..n -> GdpValues] } : n \in 1..MaxRanked }

Config(region, year, operation) ==
    ("region" :> region) @@ ("year" :> year) @@ ("operation" :> operation)
    @@ ("output" :> "console")

(* the configs load_config accepts, one whose operation is outside the
   enumeration and one without an operation *)
Configs ==
    { Config(RegionX, y, o) : y \in {2000, 2001}, o \in {"average", "sum"} }
    \cup { Config(RegionX, 2000, "median") }
    \cup { ("region" :> RegionX) @@ ("year" :> 2000) @@ ("output" :> "console") }

InitProcess ==
    /\ pc = "process_data"
    /\ csv_file = NoFile
    /\ transformed = <<>>
    /\ data \in Datasets
    /\ config \in Configs
    /\ results = <<>>
    /\ error = "none"
    /\ group_key = "none"
    /\ groups = <<>>
    /\ other_data = <<>>
    /\ other_results = <<>>
    /\ numbers = <<>>
    /\ stat = None
    /\ config_file = NoConfigFile
    /\ calls = <<>>

(* a faulty variant of ProcessData: the dataset is narrowed to the region
   in place *)
ProcessData_InPlace ==
    /\ pc = "process_data"
    /\ LET r == process_data(data, config)
       IN  /\ error' = r.exc
           /\ results' = r.val
           /\ pc' = IF r.exc = "none" THEN "processed" ELSE "raised"
           /\ data' = IF r.exc = "none"
                      THEN filter_by_region(data, config["region"])
                      ELSE data
    /\ UNCHANGED <<csv_file, transformed, config, group_key, groups,
                   others>>

(* process_data(data, config), data_processor.py 80-135 *)
ProcessData ==
    /\ pc = "process_data"
    /\ LET r == process_data(data, config)
       IN  /\ error' = r.exc
           /\ results' = r.val
           /\ pc' = IF r.exc = "none" THEN "processed" ELSE "raised"
    /\ UNCHANGED <<csv_file, transformed, data, config, group_key, groups,
                   others>>

NextProcess == ProcessData

SpecProcess == InitProcess /\ [][NextProcess]_vars

(* _group_by_key called on its own, by Region or by Year *)
InitGroup ==
    /\ pc = "group_by_key"
    /\ csv_file = NoFile
    /\ transformed = <<>>
    /\ data \in UNION { [1..n -> GdpRecords] : n \in 0..MaxGrouped }
    /\ config = NoConfig
    /\ results = <<>>
    /\ error = "none"
    /\ group_key = "none"
    /\ groups = <<>>
    /\ other_data = <<>>
    /\ other_results = <<>>
    /\ numbers = <<>>
    /\ stat = None
    /\ config_file = NoConfigFile
    /\ calls = <<>>

(* _group_by_key(data, key), data_processor.py 21-28 *)
GroupByKey ==
    /\ pc = "group_by_key"
    /\ \E k \in {"Region", "Year"} :
          /\ group_key' = k
          /\ groups' = _group_by_key(data, k)
    /\ pc' = "grouped"
    /\ UNCHANGED <<csv_file, transformed, data, config, results, error,
                   others>>

NextGroup == GroupByKey

SpecGroup == InitGroup /\ [][NextGroup]_vars

\* ---------------------------------------------------------------- claims

(* the non-blank lines of the file: the input rows of the wide-to-long step *)
InputRows(file) == SelectSeq(file.lines, LAMBDA l : l # <<>>)

(* the cell of line l under column j of the header, None when the line ends
   before it *)
Cell(l, j) == IF j <= Len(l) THEN l[j] ELSE None

YearColumns(file) ==
    SelectSeq([j \in 1..Len(file.fieldnames) |-> j],
              LAMBDA j : isdigit(file.fieldnames[j]))

(* what the contract asks of one row: one record per year column whose cell
   is present and non-empty after trimming, in column order *)
ContractRecords(file, l) ==
    LET cols == SelectSeq(YearColumns(file),
                   LAMBDA j : Cell(l, j) # None /\ strip(Cell(l, j)) # <<>>)
    IN  [k \in 1..Len(cols) |->
           << <<COUNTRY_NAME, strip(l[1])>>, <<COUNTRY_CODE, strip(l[2])>>,
              <<REGION, strip(l[3])>>, <<YEAR, file.fieldnames[cols[k]]>>,
              <<VALUE, strip(l[cols[k]])>> >>]

(* a file the contract speaks of: it exists, has a row, and no row holds
   more cells than the header or fewer than the three fixed columns *)
WideTable(file) ==
    /\ file.exists
    /\ InputRows(file) # <<>>
    /\ \A i \in 1..Len(file.lines) :
          file.lines[i] = <<>>
          \/ (Len(file.lines[i]) >= 3
              /\ Len(file.lines[i]) <= Len(file.fieldnames))

(* C1: for every input row and every digit-named year column, load_csv
   emits exactly one record when the cell is non-empty after trimming and
   none when it is empty or missing; a missing cell does not abort the
   load; no emitted record has an empty Value. *)
C1_WideToLong ==
    (pc # "load_csv" /\ WideTable(csv_file)) =>
        /\ error = "none"
        /\ transformed =
             Flatten([i \in 1..Len(InputRows(csv_file)) |->
                        ContractRecords(csv_file, InputRows(csv_file)[i])])
        /\ \A i \in 1..Len(transformed) :
              DictGet(transformed[i], VALUE, <<>>) # <<>>

(* the same statement for the files in which every row has all its cells *)
C1_CompleteRows ==
    (\A i \in 1..Len(csv_file.lines) :
        Len(csv_file.lines[i]) \in {0, Len(csv_file.fieldnames)})
    => C1_WideToLong

(* whether the Year (the Value) of a flat record converts *)
YearParses(text) ==
    /\ float(text).exc = "none"
    /\ IsFinite(float(text).val)

ValueParses(text) == float(text).exc = "none"

Field(row, key) ==
    LET hits == {i \in 1..Len(row) : strip(row[i][1]) = key}
    IN  IF hits = {} THEN <<>>
        ELSE row[CHOOSE i \in hits : \A j \in hits : j <= i][2]

Retained(row) ==
    /\ \A key \in {COUNTRY_NAME, COUNTRY_CODE, REGION} :
          Field(row, key) # None /\ strip(Field(row, key)) # <<>>
    /\ YearParses(Field(row, YEAR))
    /\ ValueParses(Field(row, VALUE))

RECURSIVE RetainedRecords(_)
RetainedRecords(rows) ==
    IF rows = <<>> THEN <<>>
    ELSE (IF Retained(Head(rows))
          THEN << GdpRecord(strip(Field(Head(rows), COUNTRY_NAME)),
                            strip(Field(Head(rows), COUNTRY_CODE)),
                            strip(Field(Head(rows), REGION)),
                            Trunc(float(Field(Head(rows), YEAR)).val),
                            float(Field(Head(rows), VALUE)).val) >>
          ELSE <<>>)
         \o RetainedRecords(Tail(rows))

(* C2: the cleaned dataset is exactly the input records, in input order,
   whose Country Name, Country Code and Region are non-empty after trimming
   and whose Year and Value both parse; every other record is absent. *)
C2_CleanedExactly ==
    pc # "clean_data" => data = RetainedRecords(transformed)

(* the same statement for the calls that return *)
C2_WhenReturned ==
    pc = "cleaned" => data = RetainedRecords(transformed)

(* C3: clean_data never raises: a record whose Year or Value cannot be
   converted is dropped silently. *)
C3_NeverRaises ==
    pc # "clean_data" => error = "none"


RECURSIVE SumLens(_, _)
SumLens(g, K) ==
    IF K = {} THEN 0
    ELSE LET k == CHOOSE x \in K : TRUE
         IN  Len(g[k]) + SumLens(g, K \ {k})

Occurrences(seq, v) == Cardinality({j \in 1..Len(seq) : seq[j] = v})

(* C4: _group_by_key partitions the dataset: every record's Value is in
   the group of the record's own key and in no other, as often as the
   records of that key have it; no group is empty; the group lengths add up
   to the length of the dataset. *)
C4_GroupPartition ==
    pc = "grouped" =>
        /\ DOMAIN groups = {data[i][group_key] : i \in 1..Len(data)}
        /\ \A k \in DOMAIN groups : Len(groups[k]) >= 1
        /\ \A k \in DOMAIN groups : \A i \in 1..Len(data) :
              Occurrences(groups[k], data[i]["Value"]) =
                Cardinality({j \in 1..Len(data) :
                               /\ data[j][group_key] = k
                               /\ data[j]["Value"] = data[i]["Value"]})
        /\ SumLens(groups, DOMAIN groups) = Len(data)

(* two groups, one of them holding two Values *)
C4_Witness ==
    /\ pc = "grouped"
    /\ Cardinality(DOMAIN groups) = 2
    /\ \E k \in DOMAIN groups : Len(groups[k]) = 2

(* the Values of the records at the indices S, added in dataset order *)
RECURSIVE TotalOver(_, _)
TotalOver(rows, S) ==
    IF S = {} THEN Fin(0)
    ELSE LET m == CHOOSE i \in S : \A j \in S : j <= i
         IN  FAdd(TotalOver(rows, S \ {m}), rows[m]["Value"])

(* the sum or the average of the records at the indices S *)
Aggregate(operation, rows, S) ==
    IF operation = "sum" THEN TotalOver(rows, S)
    ELSE IF S = {} THEN Fin(0)
    ELSE FDiv(TotalOver(rows, S), Cardinality(S))

Processed ==
    /\ pc = "processed"
    /\ config["operation"] \in {"average", "sum"}

InRegion == {i \in 1..Len(data) : data[i]["Region"] = config["region"]}

InRegionYear == {i \in InRegion : data[i]["Year"] = config["year"]}

(* C5: region_stat is the sum or the average of the Values of all records
   of config.region, whatever their year; it is 0 when the region has no
   record. *)
C5_RegionStat ==
    Processed =>
        /\ results.region_stat = Aggregate(config["operation"], data, InRegion)
        /\ InRegion = {} => results.region_stat = Fin(0)

(* the region has records in the configured year and in another one *)
C5_Witness ==
    /\ Processed
    /\ InRegionYear # {}
    /\ InRegion # InRegionYear
    /\ results.region_stat # Aggregate(config["operation"], data, InRegionYear)

C5_WitnessEmpty ==
    /\ Processed
    /\ config["operation"] = "average"
    /\ data # <<>>
    /\ InRegion = {}

Names(S) == {data[i]["Country Name"] : i \in S}

(* the last record at the indices S that is of country name *)
LastOf(name, S) ==
    CHOOSE i \in S : /\ data[i]["Country Name"] = name
                     /\ \A j \in S : data[j]["Country Name"] = name => j <= i

KeySet(d) == {d[i][1] : i \in 1..Len(d)}

(* C6 as stated: region_year_countries has the Country Names of the records
   matching config.region and config.year as its keys, each entry holds the
   Value of its country's matching record, and for sum the entries add up
   to the total of the matching records. *)
C6_OneRecordPerCountry ==
    Processed =>
        /\ KeySet(results.region_year_countries) = Names(InRegionYear)
        /\ \A i \in InRegionYear :
              DictGet(results.region_year_countries,
                      data[i]["Country Name"], None) = data[i]["Value"]
        /\ compute_sum(DictValues(results.region_year_countries))
             = TotalOver(data, InRegionYear)

(* C6 amended: the keys are the Country Names of the matching records, one
   entry per country; an entry holds the Value of the last matching record
   of its country; the entries add up to the total of the matching records
   when no country has two matching records. *)
C6_LastRecordPerCountry ==
    Processed =>
        /\ KeySet(results.region_year_countries) = Names(InRegionYear)
        /\ Len(results.region_year_countries) = Cardinality(Names(InRegionYear))
        /\ \A name \in Names(InRegionYear) :
              DictGet(results.region_year_countries, name, None)
                = data[LastOf(name, InRegionYear)]["Value"]
        /\ Cardinality(Names(InRegionYear)) = Cardinality(InRegionYear)
             => compute_sum(DictValues(results.region_year_countries))
                  = TotalOver(data, InRegionYear)

(* a country with two matching records of different Values *)
C6_Witness ==
    /\ Processed
    /\ \E i, j \in InRegionYear :
          /\ i < j
          /\ data[i]["Country Name"] = data[j]["Country Name"]
          /\ data[i]["Value"] # data[j]["Value"]
          /\ DictGet(results.region_year_countries,
                     data[i]["Country Name"], None) = data[j]["Value"]

Min(a, b) == IF a < b THEN a ELSE b

Position(d, k) == CHOOSE i \in 1..Len(d) : d[i][1] = k

(* C7: top_countries_in_region has at most 5 entries, all of them entries
   of region_year_countries, min(5, size) of them; no entry has a smaller
   Value than a later one; no entry left out has a greater Value than an
   entry kept. *)
C7_TopFive ==
    Processed =>
        LET all == results.region_year_countries
            top == results.top_countries_in_region
        IN  /\ Len(top) <= TopK
            /\ Len(top) = Min(TopK, Len(all))
            /\ \A i \in 1..Len(top) : \E j \in 1..Len(all) : all[j] = top[i]
            /\ \A i, j \in 1..Len(top) : i < j => ~FLt(top[i][2], top[j][2])
            /\ \A j \in 1..Len(all) :
                  ~DictHas(top, all[j][1]) =>
                      \A i \in 1..Len(top) : ~FLt(top[i][2], all[j][2])

NoNaN == \A i \in 1..Len(data) : ~IsNaN(data[i]["Value"])

(* the same statement for the datasets without a NaN Value *)
C7_WithoutNaN == NoNaN => C7_TopFive

(* C8: two entries of top_countries_in_region with equal Values are in the
   order they have in region_year_countries, and of two entries of
   region_year_countries with equal Values of which one is kept and one is
   left out, the kept one is the earlier. *)
C8_StableTies ==
    Processed =>
        LET all == results.region_year_countries
            top == results.top_countries_in_region
        IN  /\ \A i, j \in 1..Len(top) :
                  (i < j /\ top[i][2] = top[j][2] /\ ~IsNaN(top[i][2]))
                    => Position(all, top[i][1]) < Position(all, top[j][1])
            /\ \A i, j \in 1..Len(all) :
                  (/\ all[i][2] = all[j][2]
                   /\ ~IsNaN(all[i][2])
                   /\ DictHas(top, all[j][1])
                   /\ ~DictHas(top, all[i][1]))
                    => j < i

(* the same statement for the datasets without a NaN Value *)
C8_WithoutNaN == NoNaN => C8_StableTies

(* C9: region_trend has exactly the years in which config.region has a
   record, in strictly ascending order, each with the sum or the average of
   the Values of the region's records of that year. *)
C9_RegionTrend ==
    Processed =>
        LET trend == results.region_trend
        IN  /\ KeySet(trend) = {data[i]["Year"] : i \in InRegion}
            /\ \A i, j \in 1..Len(trend) : i < j => trend[i][1] < trend[j][1]
            /\ \A i \in 1..Len(trend) :
                  trend[i][2] =
                    Aggregate(config["operation"], data,
                              {j \in InRegion : data[j]["Year"] = trend[i][1]})

(* the dataset holds a later year before an earlier one, both in the
   trend, and a year in which the region has no record *)
C9_Witness ==
    /\ Processed
    /\ Len(results.region_trend) = 2
    /\ \E i, j \in InRegion : i < j /\ data[i]["Year"] > data[j]["Year"]

C9_WitnessAbsent ==
    /\ Processed
    /\ Len(results.region_trend) = 1
    /\ \E i \in 1..Len(data) :
          data[i]["Year"] \notin KeySet(results.region_trend)

(* C10: region_stats_by_year has the Regions of the dataset as keys and
   year_stats_global its Years, each with the sum or the average of the
   Values of all records of that Region (of that Year). *)
C10_GroupStats ==
    Processed =>
        /\ DOMAIN results.region_stats_by_year
             = {data[i]["Region"] : i \in 1..Len(data)}
        /\ \A r \in DOMAIN results.region_stats_by_year :
              results.region_stats_by_year[r] =
                Aggregate(config["operation"], data,
                          {i \in 1..Len(data) : data[i]["Region"] = r})
        /\ DOMAIN results.year_stats_global
             = {data[i]["Year"] : i \in 1..Len(data)}
        /\ \A y \in DOMAIN results.year_stats_global :
              results.year_stats_global[y] =
                Aggregate(config["operation"], data,
                          {i \in 1..Len(data) : data[i]["Year"] = y})

(* an average over a region that has records in two years, and over a year
   that has records in two regions *)
C10_Witness ==
    /\ Processed
    /\ config["operation"] = "average"
    /\ \E i, j \in 1..Len(data) :
          /\ data[i]["Region"] = data[j]["Region"]
          /\ data[i]["Year"] # data[j]["Year"]
          /\ data[i]["Value"] # data[j]["Value"]
          /\ ~IsNaN(data[i]["Value"]) /\ ~IsNaN(data[j]["Value"])

C10_WitnessYear ==
    /\ Processed
    /\ \E i, j \in 1..Len(data) :
          /\ data[i]["Year"] = data[j]["Year"]
          /\ data[i]["Region"] # data[j]["Region"]

\* ------------------------------------------------------------------ C13

(* the config has the four keys process_data reads and an operation of
   the enumeration *)
ValidConfig ==
    /\ RequiredKeys \subseteq DOMAIN config
    /\ config["operation"] \in {"average", "sum"}

(* C13: process_data called with a config that lacks a required key or
   whose operation is neither average nor sum raises and returns no
   bundle. *)
C13_FailsFast ==
    (pc # "process_data" /\ ~ValidConfig) =>
        /\ pc = "raised"
        /\ error # "none"
        /\ results = <<>>

(* the part of C13 the code keeps: a missing key raises KeyError *)
C13_MissingKeyRaises ==
    (pc # "process_data" /\ ~(RequiredKeys \subseteq DOMAIN config)) =>
        /\ pc = "raised"
        /\ error = "KeyError"
        /\ results = <<>>

(* an operation outside the enumeration is computed as a sum *)
C13_DefaultsToSum ==
    (pc # "process_data" /\ RequiredKeys \subseteq DOMAIN config
        /\ config["operation"] \notin {"average", "sum"}) =>
        /\ pc = "processed"
        /\ results.region_stat = TotalOver(data, InRegion)

\* ------------------------------------------------------------------ C14

MaxValues == 3

(* the floats the reducers are called on *)
Numbers == {Fin(10), Fin(20), NaN, Inf, NegInf}

(* compute_average and compute_sum called on their own *)
InitReduce ==
    /\ pc = "reduce"
    /\ csv_file = NoFile
    /\ transformed = <<>>
    /\ data = <<>>
    /\ config = NoConfig
    /\ results = <<>>
    /\ error = "none"
    /\ group_key = "none"
    /\ groups = <<>>
    /\ other_data = <<>>
    /\ other_results = <<>>
    /\ numbers \in UNION { [1..n -> Numbers] : n \in 0..MaxValues }
    /\ stat = None
    /\ config_file = NoConfigFile
    /\ calls = <<>>

(* compute_average(values), data_processor.py 13-14 *)
ComputeAverage ==
    /\ pc = "reduce"
    /\ stat' = compute_average(numbers)
    /\ pc' = "averaged"
    /\ UNCHANGED <<csv_file, transformed, data, config, results, error,
                   group_key, groups, other_data, other_results, numbers,
                   config_file, calls>>

(* compute_sum(values), data_processor.py 16-17 *)
ComputeSum ==
    /\ pc = "reduce"
    /\ stat' = compute_sum(numbers)
    /\ pc' = "summed"
    /\ UNCHANGED <<csv_file, transformed, data, config, results, error,
                   group_key, groups, other_data, other_results, numbers,
                   config_file, calls>>

NextReduce == ComputeAverage \/ ComputeSum

SpecReduce == InitReduce /\ [][NextReduce]_vars

(* the floats of vs added from the left, the last one last *)
RECURSIVE Total(_)
Total(vs) ==
    IF vs = <<>> THEN Fin(0)
    ELSE FAdd(Total(SubSeq(vs, 1, Len(vs) - 1)), vs[Len(vs)])

(* x is t divided by the positive count n *)
IsQuotient(x, t, n) ==
    IF IsFinite(t) THEN IsFinite(x) /\ x[1] * n * t[2] = t[1] * x[2]
    ELSE x = t

(* C14: compute_average of the empty list is 0.0 and no division by zero
   happens, compute_sum of the empty list is 0, and compute_average of a
   non-empty list is its sum divided by its count; [10, 20] gives 15. *)
C14_Reducers ==
    /\ pc = "summed" =>
          /\ stat = Total(numbers)
          /\ numbers = <<>> => stat = Fin(0)
    /\ pc = "averaged" =>
          /\ stat # ZeroDivisionError
          /\ numbers = <<>> => stat = Fin(0)
          /\ numbers # <<>> => IsQuotient(stat, Total(numbers), Len(numbers))
          /\ numbers = <<Fin(10), Fin(20)>> => stat = Fin(15)

(* the average of [10, 20] was taken *)
C14_Witness ==
    /\ pc = "averaged"
    /\ numbers = <<Fin(10), Fin(20)>>
    /\ stat = Fin(15)

(* the average of the empty list was taken *)
C14_WitnessEmpty ==
    /\ pc = "averaged"
    /\ numbers = <<>>
    /\ stat = Fin(0)

\* ------------------------------------------------------------------ C11

(* the datasets that hold the records of dataset in another order *)
Reorderings(dataset) ==
    { [i \in 1..Len(dataset) |-> dataset[p[i]]] :
        p \in Permutations(1..Len(dataset)) }

(* process_data called on a dataset and then on a reordering of it *)
InitPermuted ==
    /\ pc = "process_data"
    /\ csv_file = NoFile
    /\ transformed = <<>>
    /\ data \in UNION { [1..n -> GdpRecords] : n \in 0..MaxRecords }
    /\ config \in Configs
    /\ results = <<>>
    /\ error = "none"
    /\ group_key = "none"
    /\ groups = <<>>
    /\ other_data \in Reorderings(data)
    /\ other_results = <<>>
    /\ numbers = <<>>
    /\ stat = None
    /\ config_file = NoConfigFile
    /\ calls = <<>>

(* process_data(other_data, config), data_processor.py 80-135 *)
ProcessOther ==
    /\ pc = "processed"
    /\ LET r == process_data(other_data, config)
       IN  /\ error' = r.exc
           /\ other_results' = r.val
           /\ pc' = IF r.exc = "none" THEN "compared" ELSE "raised"
    /\ UNCHANGED <<csv_file, transformed, data, config, results, group_key,
                   groups, other_data, numbers, stat, config_file, calls>>

NextPermuted == ProcessData \/ ProcessOther

SpecPermuted == InitPermuted /\ [][NextPermuted]_vars

(* a dict as the set of its items *)
Items(d) == {d[i] : i \in 1..Len(d)}

(* C11: process_data on a reordering of the dataset returns the same
   counts, region_stat, region_stats_by_year, year_stats_global,
   region_year_countries (as a mapping) and region_trend, and a ranking of
   the same Values (only entries of equal Value may change places). *)
C11_OrderIndependent ==
    pc = "compared" =>
        /\ other_results.filtered_region_count = results.filtered_region_count
        /\ other_results.filtered_year_count = results.filtered_year_count
        /\ other_results.region_stat = results.region_stat
        /\ other_results.region_stats_by_year = results.region_stats_by_year
        /\ other_results.year_stats_global = results.year_stats_global
        /\ Items(other_results.region_year_countries)
             = Items(results.region_year_countries)
        /\ other_results.region_trend = results.region_trend
        /\ DictValues(other_results.top_countries_in_region)
             = DictValues(results.top_countries_in_region)

(* no two records of the dataset are of the same country, region and year *)
OneRecordPerKey ==
    \A i, j \in 1..Len(data) :
        (/\ data[i]["Country Name"] = data[j]["Country Name"]
         /\ data[i]["Region"] = data[j]["Region"]
         /\ data[i]["Year"] = data[j]["Year"]) => i = j

(* what the model keeps of C11: exact sums of datasets without a second
   record of a country and without a NaN Value *)
C11_WithoutDuplicates == (OneRecordPerKey /\ NoNaN) => C11_OrderIndependent

\* ------------------------------------------------------------------ C12

(* process_data called twice on the same dataset and config *)
InitTwice ==
    /\ pc = "process_data"
    /\ csv_file = NoFile
    /\ transformed = <<>>
    /\ data \in UNION { [1..n -> GdpRecords] : n \in 0..MaxRecords }
    /\ config \in Configs
    /\ results = <<>>
    /\ error = "none"
    /\ group_key = "none"
    /\ groups = <<>>
    /\ other_data = <<>>
    /\ other_results = <<>>
    /\ numbers = <<>>
    /\ stat = None
    /\ config_file = NoConfigFile
    /\ calls = <<>>

(* the second process_data(data, config), data_processor.py 80-135 *)
ProcessAgain ==
    /\ pc = "processed"
    /\ LET r == process_data(data, config)
       IN  /\ error' = r.exc
           /\ other_results' = r.val
           /\ pc' = IF r.exc = "none" THEN "processed_twice" ELSE "raised"
    /\ UNCHANGED <<csv_file, transformed, data, config, results, group_key,
                   groups, other_data, numbers, stat, config_file, calls>>

NextTwice == ProcessData \/ ProcessAgain

SpecTwice == InitTwice /\ [][NextTwice]_vars

(* C12: two calls of process_data with the same dataset and config return
   the same bundle, rankings and trend in the same order, and no call
   changes the dataset or the config. *)
C12_Idempotent ==
    [][ /\ data' = data
        /\ config' = config
        /\ pc' = "processed_twice" =>
              /\ error' = "none"
              /\ DOMAIN other_results' = DOMAIN results'
              /\ other_results' = results' ]_vars

(* the second call returned for a dataset with two records of the region,
   one of them of the configured year *)
C12_Witness ==
    /\ pc = "processed_twice"
    /\ results.filtered_region_count = 2
    /\ results.filtered_year_count = 1
    /\ Len(other_results.region_trend) = 2

\* ------------------------------------------------------------------ C15

(* load_and_clean_data(file_path): clean_data(load_csv(file_path)) *)
(* return clean_data(raw), reached only when load_csv has returned *)
CleanLoaded(raw) == IF raw.exc # "none" THEN raw ELSE clean_data(raw.val)

load_and_clean_data(file) == CleanLoaded(load_csv(file))

MaxMainLines == 2

(* config.json: absent, not JSON, the configs load_config accepts, and
   configs with an operation or an output outside the enumeration or
   without an operation *)
ConfigFiles ==
    { NoConfigFile, [exists |-> TRUE, parses |-> FALSE, content |-> <<>>] }
    \cup
    { [exists |-> TRUE, parses |-> TRUE, content |-> c] :
        c \in { Config(RegionX, 1990, "sum"),
                Config(RegionX, 1990, "average"),
                Config(RegionX, 1990, "median"),
                [Config(RegionX, 1990, "sum") EXCEPT !["output"] = "file"],
                ("region" :> RegionX) @@ ("year" :> 1990)
                    @@ ("output" :> "console") } }

(* lines of the data file: one that gives two records, one without a
   value, one the cleaner drops for its empty region, one cut short, a
   blank one *)
MainLines ==
    { << <<"A">>, <<"A", "A">>, <<"X">>, <<"n">>, <<"5">>, <<" ", "6", " ">> >>,
      << <<"A">>, <<"A", "A">>, <<"X">>, <<"n">>, <<>>, <<" ">> >>,
      << <<" ", "B">>, <<"B", "B", " ">>, <<>>, <<"7">>, <<"5">>, <<"5">> >>,
      << <<"A">>, <<"A", "A">>, <<"X">>, <<"n">> >>,
      <<>> }

MainFiles ==
    { NoFile }
    \cup
    { [exists |-> TRUE, fieldnames |-> Fieldnames, lines |-> l] :
        l \in UNION { [1..n -> MainLines] : n \in 0..MaxMainLines } }

InitMain ==
    /\ pc = "main_load_config"
    /\ csv_file \in MainFiles
    /\ transformed = <<>>
    /\ data = <<>>
    /\ config = NoConfig
    /\ results = <<>>
    /\ error = "none"
    /\ group_key = "none"
    /\ groups = <<>>
    /\ other_data = <<>>
    /\ other_results = <<>>
    /\ numbers = <<>>
    /\ stat = None
    /\ config_file \in ConfigFiles
    /\ calls = <<>>

(* main.py 17-21: load_config, display_error and return when it raises *)
MainLoadConfig ==
    /\ pc = "main_load_config"
    /\ \E r \in {load_config(config_file)} :
           /\ error' = r.exc
           /\ config' = r.val
           /\ calls' = IF r.exc = "none"
                       THEN Append(calls, "load_config")
                       ELSE calls \o <<"load_config", "display_error">>
           /\ pc' = IF r.exc = "none" THEN "main_load_data" ELSE "main_done"
    /\ UNCHANGED <<csv_file, transformed, data, results, group_key, groups,
                   other_data, other_results, numbers, stat, config_file>>

(* a faulty variant of MainLoadData: the empty dataset is passed on *)
MainLoadData_NoEmptyCheck ==
    /\ pc = "main_load_data"
    /\ \E r \in {load_and_clean_data(csv_file)} :
           /\ error' = r.exc
           /\ data' = r.val
           /\ calls' = IF r.exc = "none"
                       THEN Append(calls, "load_and_clean_data")
                       ELSE calls \o <<"load_and_clean_data", "display_error">>
           /\ pc' = IF r.exc = "none" THEN "main_process" ELSE "main_done"
    /\ UNCHANGED <<csv_file, transformed, config, results, group_key, groups,
                   other_data, other_results, numbers, stat, config_file>>

(* main.py 23-32: load_and_clean_data, display_error and return when it
   raises or when the cleaned dataset is empty *)
MainLoadData ==
    /\ pc = "main_load_data"
    /\ \E r \in {load_and_clean_data(csv_file)} :
       \E ended \in {r.exc # "none" \/ r.val = <<>>} :
           /\ error' = r.exc
           /\ data' = r.val
           /\ calls' = IF ended
                       THEN calls \o <<"load_and_clean_data", "display_error">>
                       ELSE Append(calls, "load_and_clean_data")
           /\ pc' = IF ended THEN "main_done" ELSE "main_process"
    /\ UNCHANGED <<csv_file, transformed, config, results, group_key, groups,
                   other_data, other_results, numbers, stat, config_file>>

(* main.py 35-39: process_data, display_error and return when it raises *)
MainProcessData ==
    /\ pc = "main_process"
    /\ \E r \in {process_data(data, config)} :
           /\ error' = r.exc
           /\ results' = r.val
           /\ calls' = IF r.exc = "none"
                       THEN Append(calls, "process_data")
                       ELSE calls \o <<"process_data", "display_error">>
           /\ pc' = IF r.exc = "none" THEN "main_render" ELSE "main_done"
    /\ UNCHANGED <<csv_file, transformed, data, config, group_key, groups,
                   other_data, other_results, numbers, stat, config_file>>

(* main.py 42-46: render_dashboard, display_error when it raises; whether
   the drawing raises is the display's choice *)
MainRenderDashboard ==
    /\ pc = "main_render"
    /\ \E raised \in BOOLEAN :
          /\ error' = IF raised THEN "Exception" ELSE "none"
          /\ calls' = IF raised
                      THEN calls \o <<"render_dashboard", "display_error">>
                      ELSE Append(calls, "render_dashboard")
    /\ pc' = "main_done"
    /\ UNCHANGED <<csv_file, transformed, data, config, results, group_key,
                   groups, other_data, other_results, numbers, stat,
                   config_file>>

NextMain ==
    \/ MainLoadConfig
    \/ MainLoadData
    \/ MainProcessData
    \/ MainRenderDashboard

SpecMain == InitMain /\ [][NextMain]_vars

Stages ==
    <<"load_config", "load_and_clean_data", "process_data", "render_dashboard">>

(* the stages main has started, in the order of their calls *)
Started == SelectSeq(calls, LAMBDA c : c # "display_error")

Called(c) == \E i \in 1..Len(calls) : calls[i] = c

BundleKeys ==
    {"config_summary", "filtered_region_count", "filtered_year_count",
     "region_stat", "region_stats_by_year", "year_stats_global",
     "region_year_countries", "top_countries_in_region", "region_trend"}

(* C15: main starts the stages in the order load_config,
   load_and_clean_data, process_data, render_dashboard, each at most once;
   a stage that raises, or an empty cleaned dataset, ends the run with one
   display_error call after which nothing is called; process_data is never
   called on an empty dataset and render_dashboard never without a bundle. *)
C15_StageOrder ==
    /\ Len(Started) <= Len(Stages)
    /\ Started = SubSeq(Stages, 1, Len(Started))
    /\ \A i \in 1..Len(calls) :
          calls[i] = "display_error" =>
              /\ i = Len(calls)
              /\ i > 1
              /\ pc = "main_done"
    /\ (error # "none" \/ (Called("load_and_clean_data") /\ data = <<>>)) =>
          /\ pc = "main_done"
          /\ calls[Len(calls)] = "display_error"
    /\ (pc = "main_done" /\ ~Called("display_error")) =>
          /\ Started = Stages
          /\ error = "none"
    /\ Called("process_data") => data # <<>>
    /\ Called("render_dashboard") =>
          /\ results # <<>>
          /\ DOMAIN results = BundleKeys

(* the cleaned dataset was empty: the run ended before process_data *)
C15_Witness ==
    /\ pc = "main_done"
    /\ calls = <<"load_config", "load_and_clean_data", "display_error">>
    /\ error = "none"
    /\ data = <<>>

(* all four stages ran *)
C15_WitnessRendered ==
    /\ pc = "main_done"
    /\ calls = Stages
    /\ Len(results.region_year_countries) = 1

(* the data stage raised *)
C15_WitnessRaised ==
    /\ pc = "main_done"
    /\ calls = <<"load_config", "load_and_clean_data", "display_error">>
    /\ error = "AttributeError"

====
